---- MODULE Spec2Model ----
(***************************************************************************)
(* Model of crates/acap-vapix/src/http.rs: the HTTP client that discovers  *)
(* a transport scheme (from_host) and an authentication method             *)
(* (automatic_auth), builds requests with the method applied (request) and *)
(* dispatches on the method when a request is sent (send).                 *)
(*                                                                         *)
(* One caller holds a Client (client), another party may hold a clone of   *)
(* it (saved), and the caller may hold one RequestBuilder or               *)
(* UpgradedRequestBuilder (rb).  from_host and automatic_auth are async:   *)
(* they suspend at every probe, so they are split at their await points    *)
(* (op).  The remaining variables record what the most recent call did:    *)
(* its name (last), its result (result), the exchanges it put on the       *)
(* network (net), the Secrets it revealed (reveals) and the text it        *)
(* formatted (out).                                                        *)
(***************************************************************************)
EXTENDS Integers, Sequences, FiniteSets, TLC

VARIABLES client, saved, rb, op, last, result, net, reveals, out

vars == <<client, saved, rb, op, last, result, net, reveals, out>>

(***************************************************************************)
(* Bounds and input sets                                                   *)
(***************************************************************************)
MaxHostLen == 1

HostChars == {"a", "A"}

Usernames == {"root"}

Passwords == {"pass", "xxx"}

Tokens == {"tok", "xxx"}

Methods == {"GET", "POST", "PUT"}

\* the path handed to request(): a relative reference that resolves, one
\* that does not (scheme-relative, with an empty host), and a text that is
\* no relative reference but an absolute URL of another host
Paths == {"a.cgi", "//", "http://b/"}

\* closures handed to replace_with: attach a JSON body
Closures == {"json"}

RECURSIVE SeqsUpTo(_, _)
SeqsUpTo(S, n) ==
    IF n = 0 THEN {<<>>}
    ELSE LET shorter == SeqsUpTo(S, n - 1)
         IN  shorter \cup {Append(s, ch) : s \in {t \in shorter : Len(t) = n - 1}, ch \in S}

\* a url::Host::Domain value: any text, also one that Host::parse would
\* have rejected or normalised
Hosts == SeqsUpTo(HostChars, MaxHostLen)

(***************************************************************************)
(* Secret and Authentication                                               *)
(***************************************************************************)
Secret(value) == [inner |-> value]

\* a variant of Secret_fmt that writes the value
Secret_fmt_inner(secret) == secret.inner

\* impl Debug for Secret
Secret_fmt(secret) == "xxx"

\* Secret::revealed
revealed(secret) == secret.inner

Anonymous == [kind |-> "Anonymous"]

Basic(username, password) ==
    [kind |-> "Basic", username |-> username, password |-> password]

Bearer(token) == [kind |-> "Bearer", token |-> token]

Digest(username, password) ==
    [kind |-> "Digest", username |-> username, password |-> password]

\* #[derive(Debug)] on Authentication: the variant name, then every field
\* name with the Debug text of its value
Authentication_fmt(auth) ==
    CASE auth.kind = "Basic" ->
           <<"Basic", "username", auth.username, "password", Secret_fmt(auth.password)>>
      [] auth.kind = "Bearer" ->
           <<"Bearer", "token", Secret_fmt(auth.token)>>
      [] auth.kind = "Digest" ->
           <<"Digest", "username", auth.username, "password", Secret_fmt(auth.password)>>
      [] OTHER -> <<"Anonymous">>

(***************************************************************************)
(* Url                                                                     *)
(***************************************************************************)
Lower(ch) == IF ch = "A" THEN "a" ELSE ch

\* a variant of Url_parse that always yields the encrypted scheme
Url_parse_https(text) ==
    IF text[3] = <<>>
    THEN [kind |-> "Err", msg |-> "EmptyHost"]
    ELSE [kind |-> "Ok",
          url  |-> [scheme |-> "https",
                    host   |-> [i \in 1..Len(text[3]) |-> Lower(text[3][i])],
                    path   |-> "/"]]

\* format!("{scheme}://{host}")
format_url(scheme, host) == <<scheme, "://", host>>

\* Url::parse of a formatted scheme://host: an empty host is an error, the
\* host of the parsed Url is in lower case
Url_parse(text) ==
    IF text[3] = <<>>
    THEN [kind |-> "Err", msg |-> "EmptyHost"]
    ELSE [kind |-> "Ok",
          url  |-> [scheme |-> text[1],
                    host   |-> [i \in 1..Len(text[3]) |-> Lower(text[3][i])],
                    path   |-> "/"]]

\* Url::join: the input is parsed as a URL with base as its base URL; an
\* input with a scheme of its own is taken as it is, base is not used
Url_join(base, path) ==
    CASE path = "//" -> [kind |-> "Err", msg |-> "EmptyHost"]
      [] path = "http://b/" ->
           [kind |-> "Ok", url |-> [scheme |-> "http", host |-> <<"b">>, path |-> "/"]]
      [] OTHER -> [kind |-> "Ok", url |-> [base EXCEPT !.path = path]]

\* the base addresses a caller can hand to Client::new
Urls ==
    {Url_parse(format_url(scheme, host)).url :
        scheme \in {"https", "http"}, host \in Hosts \ {<<>>}}

(***************************************************************************)
(* Client                                                                  *)
(***************************************************************************)
NoClient == [kind |-> "none"]

\* the one transport handle of the model: reqwest::Client::new()
reqwest_Client_new == "reqwest"

\* a variant of new that starts with a default credential
new_default_credential(base) ==
    [kind |-> "Client", auth |-> Basic("root", Secret("pass")), base |-> base,
     client |-> reqwest_Client_new]

\* Client::new
new(base) ==
    [kind |-> "Client", auth |-> Anonymous, base |-> base, client |-> reqwest_Client_new]

\* #[derive(Debug)] on Client
Client_fmt(c) ==
    <<"Client", "auth", Authentication_fmt(c.auth), "base", c.base, "client", c.client>>

anonymous_auth(self) == [self EXCEPT !.auth = Anonymous]

basic_auth(self, username, password) ==
    [self EXCEPT !.auth = Basic(username, Secret(password))]

bearer_auth(self, token) == [self EXCEPT !.auth = Bearer(Secret(token))]

\* a variant of digest_auth that builds a Client around a new transport handle
digest_auth_new_handle(self, username, password) ==
    [self EXCEPT !.auth = Digest(username, Secret(password)), !.client = "reqwest2"]

digest_auth(self, username, password) ==
    [self EXCEPT !.auth = Digest(username, Secret(password))]

(***************************************************************************)
(* RequestBuilder and UpgradedRequestBuilder                               *)
(***************************************************************************)
NoRequest == [kind |-> "none"]

NoHeader == [type |-> "none"]

NoCredentials == [kind |-> "none"]

Ok == [kind |-> "Ok", msg |-> ""]

Err(msg) == [kind |-> "Err", msg |-> msg]

Panic(msg) == [kind |-> "Panic", msg |-> msg]

Pending == [kind |-> "Pending", msg |-> ""]

\* the future was dropped before it returned
Cancelled == [kind |-> "Cancelled", msg |-> ""]

\* a variant of apply_auth that leaves out the bearer header
apply_auth_no_bearer(auth) ==
    CASE auth.kind = "Basic" ->
           [header  |-> [type |-> "Basic", username |-> auth.username,
                         password |-> revealed(auth.password)],
            reveals |-> <<[by |-> "request", value |-> revealed(auth.password)]>>]
      [] OTHER -> [header |-> NoHeader, reveals |-> <<>>]

\* a variant of apply_auth that treats Digest like Basic
apply_auth_digest_header(auth) ==
    CASE auth.kind \in {"Basic", "Digest"} ->
           [header  |-> [type |-> "Basic", username |-> auth.username,
                         password |-> revealed(auth.password)],
            reveals |-> <<[by |-> "request", value |-> revealed(auth.password)]>>]
      [] auth.kind = "Bearer" ->
           [header  |-> [type |-> "Bearer", token |-> revealed(auth.token)],
            reveals |-> <<[by |-> "request", value |-> revealed(auth.token)]>>]
      [] OTHER -> [header |-> NoHeader, reveals |-> <<>>]

\* the match of Client::request: the header attached for the method, and
\* the Secret revealed to build it
apply_auth(auth) ==
    CASE auth.kind = "Basic" ->
           [header  |-> [type |-> "Basic", username |-> auth.username,
                         password |-> revealed(auth.password)],
            reveals |-> <<[by |-> "request", value |-> revealed(auth.password)]>>]
      [] auth.kind = "Bearer" ->
           [header  |-> [type |-> "Bearer", token |-> revealed(auth.token)],
            reveals |-> <<[by |-> "request", value |-> revealed(auth.token)]>>]
      [] OTHER -> [header |-> NoHeader, reveals |-> <<>>]

\* Client::request: the value returned (an Err, or Ok with the
\* RequestBuilder) and the Secrets revealed on the way
request(self, method, path) ==
    LET joined == Url_join(self.base, path)
        auth   == self.auth
        header == apply_auth(auth).header
        shown  == apply_auth(auth).reveals
    IN  IF joined.kind = "Err"
        THEN [result |-> Err(joined.msg), rb |-> NoRequest, reveals |-> <<>>]
        ELSE [result  |-> Ok,
              rb      |-> [kind    |-> "RequestBuilder",
                           auth    |-> auth,
                           builder |-> [method  |-> method,
                                        url     |-> joined.url,
                                        header  |-> header,
                                        body    |-> "none",
                                        upgrade |-> FALSE]],
              reveals |-> shown]

get(self, path) == request(self, "GET", path)

post(self, path) == request(self, "POST", path)

put(self, path) == request(self, "PUT", path)

\* RequestBuilder::replace_with: f is applied to the builder, auth is kept
replace_with(self, f) ==
    [kind    |-> "RequestBuilder",
     auth    |-> self.auth,
     builder |-> IF f = "json" THEN [self.builder EXCEPT !.body = "json"] ELSE self.builder]

\* a variant of upgrade that does not carry the method over
upgrade_anonymous(self) ==
    [kind    |-> "UpgradedRequestBuilder",
     auth    |-> Anonymous,
     builder |-> [self.builder EXCEPT !.upgrade = TRUE]]

\* RequestBuilder::upgrade
upgrade(self) ==
    [kind    |-> "UpgradedRequestBuilder",
     auth    |-> self.auth,
     builder |-> [self.builder EXCEPT !.upgrade = TRUE]]

\* one exchange on the network: its kind (a single request/response, the
\* delegated digest challenge-response, or an upgrade handshake), the
\* request, the credentials handed to the digest collaborator, and how it
\* ended ("pending" while it is in flight) and, if it failed, why
Exchange(xchg, builder, creds, outcome) ==
    [xchg |-> xchg, request |-> builder, creds |-> creds, outcome |-> outcome,
     cause |-> IF outcome = "failed" THEN "transport" ELSE ""]

Outcome(ok) == IF ok THEN "ok" ELSE "failed"

\* the transport's Ok(response), or its error passed on by the ? operator
Response(outcome) == IF outcome = "ok" THEN Ok ELSE Err("transport")

\* a variant of send that sends a Digest request like any other
send_no_digest(self, outcome) ==
    [result  |-> Response(outcome),
     net     |-> <<Exchange("single", self.builder, NoCredentials, outcome)>>,
     reveals |-> <<>>]

\* RequestBuilder::send: what is put on the network and which Secret is
\* revealed, by method; outcome is what the network does with the exchange
send(self, outcome) ==
    CASE self.auth.kind = "Digest" ->
           [result  |-> Response(outcome),
            net     |-> <<Exchange("digest", self.builder,
                                   [kind     |-> "digest",
                                    username |-> self.auth.username,
                                    password |-> revealed(self.auth.password)],
                                   outcome)>>,
            reveals |-> <<[by |-> "send", value |-> revealed(self.auth.password)]>>]
      [] OTHER ->
           [result  |-> Response(outcome),
            net     |-> <<Exchange("single", self.builder, NoCredentials, outcome)>>,
            reveals |-> <<>>]

\* a variant of upgraded_send that attempts the handshake for Digest too
upgraded_send_digest(self, outcome) ==
    [result  |-> Response(outcome),
     net     |-> <<Exchange("upgrade", self.builder, NoCredentials, outcome)>>,
     reveals |-> <<>>]

\* UpgradedRequestBuilder::send
upgraded_send(self, outcome) ==
    CASE self.auth.kind = "Digest" ->
           [result |-> Err("unimplemented"), net |-> <<>>, reveals |-> <<>>]
      [] OTHER ->
           [result  |-> Response(outcome),
            net     |-> <<Exchange("upgrade", self.builder, NoCredentials, outcome)>>,
            reveals |-> <<>>]

\* #[derive(Debug)] on RequestBuilder
RequestBuilder_fmt(r) ==
    <<"RequestBuilder", "auth", Authentication_fmt(r.auth), "builder",
      r.builder.method, r.builder.url>>

(***************************************************************************)
(* The probes.  systemready::systemready().execute(client) and             *)
(* basic_device_info::Client::new(client).get_all_properties().send()      *)
(* build one POST request from the candidate Client and send it.           *)
(***************************************************************************)
SystemReadyPath == "axis-cgi/systemready.cgi"

DeviceInfoPath == "axis-cgi/basicdeviceinfo.cgi"

\* what a probe of the candidate c on path p reveals and puts on the
\* network; the exchange is in flight until the probe completes
probe(c, p) ==
    LET built == post(c, p)
        sent  == send(built.rb, "pending")
    IN  [net |-> sent.net, reveals |-> built.reveals \o sent.reveals]

systemready_execute(c) == probe(c, SystemReadyPath)

get_all_properties_send(c) == probe(c, DeviceInfoPath)

\* what the send of a probe resolves to: a response that answers the
\* probe, an error because the server rejected the request (its scheme,
\* its method or its credentials), or an error of the transport
ProbeResults == {Ok, Err("rejected"), Err("transport")}

\* a variant of Completed that goes on while the probe is still in flight
Completed_not_awaited(exchanges, sent) == exchanges

\* the probe in flight completes
Completed(exchanges, sent) ==
    [exchanges EXCEPT ![Len(exchanges)].outcome = Outcome(sent.kind = "Ok"),
                      ![Len(exchanges)].cause = sent.msg]

\* a variant of is_authenticated that passes the error of the probe on
is_authenticated_error(sent) ==
    IF sent.kind = "Ok"
    THEN [kind |-> "Ok", value |-> TRUE, msg |-> ""]
    ELSE [kind |-> "Err", value |-> FALSE, msg |-> sent.msg]

\* a variant of is_authenticated that passes on what is not a rejection
is_authenticated_transport_error(sent) ==
    IF sent.kind = "Err" /\ sent.msg = "transport"
    THEN [kind |-> "Err", value |-> FALSE, msg |-> sent.msg]
    ELSE [kind |-> "Ok", value |-> sent.kind = "Ok", msg |-> ""]

\* Client::is_authenticated: every error of the probe is mapped to Ok(false)
is_authenticated(sent) == [kind |-> "Ok", value |-> sent.kind = "Ok", msg |-> ""]

(***************************************************************************)
(* State                                                                   *)
(***************************************************************************)
IdleOp == [name |-> "idle"]

\* a variant of Schemes that tries plaintext first
Schemes_plaintext_first == <<"http", "https">>

\* the schemes from_host tries, in its order
Schemes == <<"https", "http">>

\* the most recent call and its arguments
Call(name, args) == [name |-> name, args |-> args]

Init ==
    /\ client = NoClient
    /\ saved = NoClient
    /\ rb = NoRequest
    /\ op = IdleOp
    /\ last = Call("init", <<>>)
    /\ result = Ok
    /\ net = <<>>
    /\ reveals = <<>>
    /\ out = <<>>

\* the caller is not inside from_host or automatic_auth, and has not crashed
Idle == op.name = "idle" /\ result.kind # "Panic"

\* the caller holds no Client and no request: a Client is created at the
\* start of a session, every later value of the session derives from it
Empty == client = NoClient /\ saved = NoClient /\ rb = NoRequest

\* what a completed call leaves behind
Returned(call, res, exchanges, shown, text) ==
    /\ last' = call
    /\ result' = res
    /\ net' = exchanges
    /\ reveals' = shown
    /\ out' = text

(***************************************************************************)
(* Client::new and Client::from_host                                       *)
(***************************************************************************)
New(base) ==
    /\ Idle
    /\ Empty
    /\ client' = new(base)
    /\ Returned(Call("new", <<base>>), Ok, <<>>, <<>>, <<>>)
    /\ UNCHANGED <<saved, rb, op>>

\* one turn of the loop of from_host up to its await: parse the URL
\* (expect panics on an error), build the candidate and send the probe
from_host_iteration(host, i, exchanges) ==
    LET parsed == Url_parse(format_url(Schemes[i], host))
        call   == Call("from_host", <<host>>)
    IN  IF parsed.kind = "Err"
        THEN /\ op' = IdleOp
             /\ Returned(call, Panic("Valid schema and host produces valid URL"),
                         exchanges, <<>>, <<>>)
        ELSE LET candidate == new(parsed.url)
                 sent      == systemready_execute(candidate)
             IN  /\ op' = [name |-> "from_host", host |-> host, i |-> i, cand |-> candidate]
                 /\ Returned(call, Pending, exchanges \o sent.net, sent.reveals, <<>>)

FromHost(host) ==
    /\ Idle
    /\ Empty
    /\ from_host_iteration(host, 1, <<>>)
    /\ UNCHANGED <<client, saved, rb>>

\* the probe of from_host completes: return the candidate or go on
FromHostProbed(sent) ==
    /\ op.name = "from_host"
    /\ IF sent.kind = "Ok"
       THEN /\ client' = op.cand
            /\ op' = IdleOp
            /\ Returned(last, Ok, Completed(net, sent), reveals, <<>>)
       ELSE /\ client' = client
            /\ IF op.i < Len(Schemes)
               THEN from_host_iteration(op.host, op.i + 1, Completed(net, sent))
               ELSE /\ op' = IdleOp
                    /\ Returned(last, Err("Could not find a scheme that works"),
                                Completed(net, sent), reveals, <<>>)
    /\ UNCHANGED <<saved, rb>>

(***************************************************************************)
(* Client::automatic_auth                                                  *)
(***************************************************************************)
\* a variant of automatic_auth_candidate that tries Basic before Digest
automatic_auth_candidate_basic_first(stage, previous, username, password) ==
    CASE stage = 1 -> basic_auth(previous, username, password)
      [] stage = 2 -> digest_auth(previous, username, password)
      [] OTHER     -> anonymous_auth(previous)

\* a variant of automatic_auth_candidate that first probes the Client as
\* it was handed in
automatic_auth_candidate_input_first(stage, previous, username, password) ==
    CASE stage = 1 -> previous
      [] stage = 2 -> basic_auth(previous, username, password)
      [] OTHER     -> anonymous_auth(previous)

\* the candidate of each stage, built from the previous one
automatic_auth_candidate(stage, previous, username, password) ==
    CASE stage = 1 -> digest_auth(previous, username, password)
      [] stage = 2 -> basic_auth(previous, username, password)
      [] OTHER     -> anonymous_auth(previous)

\* one stage of automatic_auth up to its await; self is the Client that
\* automatic_auth was called on
automatic_auth_stage(stage, previous, username, password, exchanges, shown, self) ==
    LET candidate == automatic_auth_candidate(stage, previous, username, password)
        sent      == get_all_properties_send(candidate)
    IN  /\ op' = [name |-> "automatic_auth", stage |-> stage, cand |-> candidate,
                  username |-> username, password |-> password]
        /\ Returned(Call("automatic_auth", <<username, password, self>>), Pending,
                    exchanges \o sent.net,
                    shown \o sent.reveals, <<>>)

\* automatic_auth(self, ..) takes the Client by value; the caller settles
\* the method before it builds a request
AutomaticAuth(username, password) ==
    /\ Idle
    /\ client # NoClient
    /\ rb = NoRequest
    /\ client' = NoClient
    /\ automatic_auth_stage(1, client, username, password, <<>>, <<>>, client)
    /\ UNCHANGED <<saved, rb>>

AutomaticAuthProbed(sent) ==
    /\ op.name = "automatic_auth"
    /\ LET authenticated == is_authenticated(sent)
       IN  IF authenticated.kind # "Ok"
           THEN /\ client' = client
                /\ op' = IdleOp
                /\ Returned(last, Err(authenticated.msg), Completed(net, sent), reveals, <<>>)
           ELSE IF authenticated.value
           THEN /\ client' = op.cand
                /\ op' = IdleOp
                /\ Returned(last, Ok, Completed(net, sent), reveals, <<>>)
           ELSE IF op.stage < 3
           THEN /\ client' = client
                /\ automatic_auth_stage(op.stage + 1, op.cand, op.username, op.password,
                                        Completed(net, sent), reveals, last.args[3])
           ELSE /\ client' = client
                /\ op' = IdleOp
                /\ Returned(last,
                            Err("Could not find an authentication method that works"),
                            Completed(net, sent), reveals, <<>>)
    /\ UNCHANGED <<saved, rb>>

(***************************************************************************)
(* Cancellation: the caller drops the future of from_host or               *)
(* automatic_auth while it is suspended at the await of a probe            *)
(***************************************************************************)
\* a variant of after_cancel that leaves the candidate with the caller
after_cancel_candidate(held, candidate) == candidate

\* the Client of the caller after the future is dropped: the candidate is
\* a local of the future and is dropped with it
after_cancel(held, candidate) == held

\* the probe in flight is aborted
Aborted(exchanges) ==
    [exchanges EXCEPT ![Len(exchanges)].outcome = "cancelled"]

Cancel ==
    /\ op.name # "idle"
    /\ client' = after_cancel(client, op.cand)
    /\ op' = IdleOp
    /\ Returned(last, Cancelled, Aborted(net), reveals, <<>>)
    /\ UNCHANGED <<saved, rb>>

(***************************************************************************)
(* Builder calls, clone, Debug                                             *)
(***************************************************************************)
AnonymousAuth ==
    /\ Idle
    /\ client # NoClient
    /\ client' = anonymous_auth(client)
    /\ Returned(Call("anonymous_auth", <<>>), Ok, <<>>, <<>>, <<>>)
    /\ UNCHANGED <<saved, rb, op>>

BasicAuth(username, password) ==
    /\ Idle
    /\ client # NoClient
    /\ client' = basic_auth(client, username, password)
    /\ Returned(Call("basic_auth", <<username, password>>), Ok, <<>>, <<>>, <<>>)
    /\ UNCHANGED <<saved, rb, op>>

BearerAuth(token) ==
    /\ Idle
    /\ client # NoClient
    /\ client' = bearer_auth(client, token)
    /\ Returned(Call("bearer_auth", <<token>>), Ok, <<>>, <<>>, <<>>)
    /\ UNCHANGED <<saved, rb, op>>

DigestAuth(username, password) ==
    /\ Idle
    /\ client # NoClient
    /\ client' = digest_auth(client, username, password)
    /\ Returned(Call("digest_auth", <<username, password>>), Ok, <<>>, <<>>, <<>>)
    /\ UNCHANGED <<saved, rb, op>>

\* #[derive(Clone)]: another party keeps a clone of the caller's Client
Clone ==
    /\ Idle
    /\ client # NoClient
    /\ saved' = client
    /\ Returned(Call("clone", <<>>), Ok, <<>>, <<>>, <<>>)
    /\ UNCHANGED <<client, rb, op>>

\* the session ends: every value held goes out of scope
Drop ==
    /\ Idle
    /\ ~Empty
    /\ client' = NoClient
    /\ saved' = NoClient
    /\ rb' = NoRequest
    /\ Returned(Call("drop", <<>>), Ok, <<>>, <<>>, <<>>)
    /\ UNCHANGED op

\* {:?} of the caller's Client, of the clone, or of the RequestBuilder
DebugFmt(target) ==
    /\ Idle
    /\ \/ /\ target = "client"
          /\ client # NoClient
          /\ Returned(Call("fmt_client", <<>>), Ok, <<>>, <<>>, Client_fmt(client))
       \/ /\ target = "saved"
          /\ saved # NoClient
          /\ Returned(Call("fmt_saved", <<>>), Ok, <<>>, <<>>, Client_fmt(saved))
       \/ /\ target = "rb"
          /\ rb.kind = "RequestBuilder"
          /\ Returned(Call("fmt_rb", <<>>), Ok, <<>>, <<>>, RequestBuilder_fmt(rb))
    /\ UNCHANGED <<client, saved, rb, op>>

(***************************************************************************)
(* Requests                                                                *)
(***************************************************************************)
\* the caller keeps the RequestBuilder of an Ok, and what it held on an Err
Built(call, built) ==
    /\ rb' = IF built.result.kind = "Ok" THEN built.rb ELSE rb
    /\ Returned(call, built.result, <<>>, built.reveals, <<>>)
    /\ UNCHANGED <<client, saved, op>>

Request(method, path) ==
    /\ Idle
    /\ client # NoClient
    /\ Built(Call("request", <<method, path>>), request(client, method, path))

Get(path) ==
    /\ Idle
    /\ client # NoClient
    /\ Built(Call("get", <<path>>), get(client, path))

Post(path) ==
    /\ Idle
    /\ client # NoClient
    /\ Built(Call("post", <<path>>), post(client, path))

Put(path) ==
    /\ Idle
    /\ client # NoClient
    /\ Built(Call("put", <<path>>), put(client, path))

ReplaceWith(f) ==
    /\ Idle
    /\ rb.kind = "RequestBuilder"
    /\ rb' = replace_with(rb, f)
    /\ Returned(Call("replace_with", <<f>>), Ok, <<>>, <<>>, <<>>)
    /\ UNCHANGED <<client, saved, op>>

Upgrade ==
    /\ Idle
    /\ rb.kind = "RequestBuilder"
    /\ rb' = upgrade(rb)
    /\ Returned(Call("upgrade", <<>>), Ok, <<>>, <<>>, <<>>)
    /\ UNCHANGED <<client, saved, op>>

\* send consumes the RequestBuilder; ok is what the network does
Send(ok) ==
    /\ Idle
    /\ rb.kind = "RequestBuilder"
    /\ LET sent == send(rb, Outcome(ok))
       IN  Returned(Call("send", <<rb, ok>>), sent.result, sent.net, sent.reveals, <<>>)
    /\ rb' = NoRequest
    /\ UNCHANGED <<client, saved, op>>

UpgradedSend(ok) ==
    /\ Idle
    /\ rb.kind = "UpgradedRequestBuilder"
    /\ LET sent == upgraded_send(rb, Outcome(ok))
       IN  Returned(Call("upgraded_send", <<rb, ok>>), sent.result, sent.net, sent.reveals, <<>>)
    /\ rb' = NoRequest
    /\ UNCHANGED <<client, saved, op>>

Next ==
    \/ \E base \in Urls : New(base)
    \/ \E host \in Hosts : FromHost(host)
    \/ \E sent \in ProbeResults : FromHostProbed(sent)
    \/ \E username \in Usernames, password \in Passwords : AutomaticAuth(username, password)
    \/ \E sent \in ProbeResults : AutomaticAuthProbed(sent)
    \/ Cancel
    \/ AnonymousAuth
    \/ \E username \in Usernames, password \in Passwords : BasicAuth(username, password)
    \/ \E token \in Tokens : BearerAuth(token)
    \/ \E username \in Usernames, password \in Passwords : DigestAuth(username, password)
    \/ Clone
    \/ Drop
    \/ \E target \in {"client", "saved", "rb"} : DebugFmt(target)
    \/ \E method \in Methods, path \in Paths : Request(method, path)
    \/ \E path \in Paths : Get(path)
    \/ \E path \in Paths : Post(path)
    \/ \E path \in Paths : Put(path)
    \/ \E f \in Closures : ReplaceWith(f)
    \/ Upgrade
    \/ \E ok \in BOOLEAN : Send(ok)
    \/ \E ok \in BOOLEAN : UpgradedSend(ok)

Spec == Init /\ [][Next]_vars

(***************************************************************************)
(* Properties                                                              *)
(***************************************************************************)
\* the method a probe was sent with, read off the exchange on the network
ProbeMethod(e) ==
    CASE e.xchg = "digest" -> "Digest"
      [] e.request.header.type = "Basic" -> "Basic"
      [] e.request.header.type = "Bearer" -> "Bearer"
      [] OTHER -> "Anonymous"

\* every exchange but the last has completed with failure
EarlierFailed == \A i \in 1..(Len(net) - 1) : net[i].outcome = "failed"

AllFailed == \A i \in 1..Len(net) : net[i].outcome = "failed"

RequestCalls == {"request", "get", "post", "put"}

BuilderCalls == {"anonymous_auth", "basic_auth", "bearer_auth", "digest_auth"}

\* C1: automatic_auth probes Digest, then Basic, then Anonymous, each only
\* after the one before it has failed; when it returns a Client, the
\* Client's method is the one of the last probe, which is the first that
\* succeeded, and no later candidate has been probed.
C1_AutomaticAuthOrder ==
    last.name = "automatic_auth" =>
        /\ Len(net) \in 1..3
        /\ \A i \in 1..Len(net) : ProbeMethod(net[i]) = <<"Digest", "Basic", "Anonymous">>[i]
        /\ EarlierFailed
        /\ net[Len(net)].outcome = "ok" <=> result = Ok
        /\ result = Ok => /\ client # NoClient
                          /\ client.auth.kind = <<"Digest", "Basic", "Anonymous">>[Len(net)]
        /\ result.kind = "Pending" <=> net[Len(net)].outcome = "pending"

\* only the Basic probe succeeded: the result is a Basic client
C1_Witness ==
    /\ last.name = "automatic_auth"
    /\ result = Ok
    /\ Len(net) = 2
    /\ net[1].outcome = "failed"
    /\ client.auth.kind = "Basic"

\* C2: from_host probes https, then http only after the https probe has
\* failed; a successful https probe is the only probe; when both probes
\* fail the call fails with the scheme-exhaustion error after exactly two
\* probes.
C2_FromHostOrder ==
    last.name = "from_host" =>
        /\ Len(net) <= 2
        /\ \A i \in 1..Len(net) : net[i].request.url.scheme = <<"https", "http">>[i]
        /\ EarlierFailed
        /\ (Len(net) >= 1 /\ net[1].outcome = "ok") => Len(net) = 1
        /\ (Len(net) = 2 /\ AllFailed) <=> result.kind = "Err"
        /\ result.kind = "Err" => result.msg = "Could not find a scheme that works"

\* both probes failed
C2_Witness ==
    /\ last.name = "from_host"
    /\ result.kind = "Err"
    /\ Len(net) = 2
    /\ op = IdleOp

\* the host of a Url parsed from the given host
Normalised(host) == [i \in 1..Len(host) |-> Lower(host[i])]

\* the scheme of the Client from_host returns is the scheme of the first
\* probe that succeeded
FromHostScheme ==
    (last.name = "from_host" /\ result = Ok) =>
        /\ net[Len(net)].outcome = "ok"
        /\ EarlierFailed
        /\ client.base.scheme = <<"https", "http">>[Len(net)]

\* C3 as claimed: the Client from_host returns has the scheme of the first
\* probe that succeeded and the given host.
C3_FromHostGivenHost ==
    /\ FromHostScheme
    /\ (last.name = "from_host" /\ result = Ok) => client.base.host = last.args[1]

\* C3: the Client from_host returns has the scheme of the first probe that
\* succeeded, and its host is the given host as Url::parse normalises it
\* (in lower case): the given host itself when that is in lower case.
C3_FromHostNormalisedHost ==
    /\ FromHostScheme
    /\ (last.name = "from_host" /\ result = Ok) =>
           /\ client.base.host = Normalised(last.args[1])
           /\ last.args[1] = Normalised(last.args[1]) => client.base.host = last.args[1]

\* the probe succeeded only on plaintext transport, for a host in upper case
C3_Witness ==
    /\ last.name = "from_host"
    /\ result = Ok
    /\ Len(net) = 2
    /\ client.base.scheme = "http"
    /\ last.args[1] # Normalised(last.args[1])

\* C4: automatic_auth fails only with the "no usable method" error, and
\* exactly when the three probes have all failed.
C4_AutomaticAuthExhausted ==
    last.name = "automatic_auth" =>
        /\ result.kind # "Panic"
        /\ result.kind = "Err" =>
               /\ result.msg = "Could not find an authentication method that works"
               /\ Len(net) = 3
               /\ AllFailed
        /\ (Len(net) = 3 /\ AllFailed) => result.kind = "Err"

\* the Digest, Basic and Anonymous probes have all failed
C4_Witness ==
    /\ last.name = "automatic_auth"
    /\ result.kind = "Err"
    /\ Len(net) = 3
    /\ op = IdleOp

\* C5: send() of an upgraded Digest request fails with "unimplemented"
\* whatever the network would do, and puts nothing on the network; for the
\* other methods it performs the upgrade handshake.
C5_UpgradedDigestUnimplemented ==
    last.name = "upgraded_send" =>
        IF last.args[1].auth.kind = "Digest"
        THEN /\ result = Err("unimplemented")
             /\ net = <<>>
        ELSE /\ Len(net) = 1
             /\ net[1].xchg = "upgrade"
             /\ net[1].request = last.args[1].builder
             /\ result = Response(Outcome(last.args[2]))

\* an upgraded Digest request was sent on a network that would have answered
C5_Witness ==
    /\ last.name = "upgraded_send"
    /\ last.args[1].auth.kind = "Digest"
    /\ last.args[2] = TRUE
    /\ result.kind = "Err"

\* the header the method of a Client calls for
ExpectedHeader(auth) ==
    CASE auth.kind = "Basic" ->
           [type |-> "Basic", username |-> auth.username, password |-> auth.password.inner]
      [] auth.kind = "Bearer" -> [type |-> "Bearer", token |-> auth.token.inner]
      [] OTHER -> [type |-> "none"]

\* C6: a request built by request/get/post/put carries the header of the
\* Client's method: basic with username and password, bearer with the
\* token, none for Digest and Anonymous; and every request held carries the
\* header of its own method.
C6_HeaderAtBuildTime ==
    /\ (last.name \in RequestCalls /\ result = Ok) =>
           /\ rb.kind = "RequestBuilder"
           /\ rb.auth = client.auth
           /\ rb.builder.header = ExpectedHeader(client.auth)
    /\ rb # NoRequest => rb.builder.header = ExpectedHeader(rb.auth)

\* a Bearer client has built a request
C6_Witness ==
    /\ last.name \in RequestCalls
    /\ result = Ok
    /\ client.auth.kind = "Bearer"
    /\ rb.builder.header.type = "Bearer"

\* C7: send() performs the digest challenge-response exchange exactly for a
\* Digest request, with the username and password of the request's method;
\* for the other methods it performs one single exchange.
C7_SendDispatch ==
    last.name = "send" =>
        /\ Len(net) = 1
        /\ net[1].request = last.args[1].builder
        /\ net[1].xchg = "digest" <=> last.args[1].auth.kind = "Digest"
        /\ net[1].xchg # "digest" => (net[1].xchg = "single" /\ net[1].creds = NoCredentials)
        /\ last.args[1].auth.kind = "Digest" =>
               net[1].creds = [kind     |-> "digest",
                               username |-> last.args[1].auth.username,
                               password |-> last.args[1].auth.password.inner]
        /\ result = Response(Outcome(last.args[2]))

\* a Digest request has been sent
C7_Witness ==
    /\ last.name = "send"
    /\ last.args[1].auth.kind = "Digest"
    /\ net[1].xchg = "digest"
    /\ net[1].creds.password = "pass"

\* C8: a builder call changes neither the base address nor the transport
\* handle of the Client it is applied to, leaves the clone another party
\* holds and the request held as they are, and puts nothing on the network.
C8_BuilderFrame ==
    [][last'.name \in BuilderCalls =>
          /\ client # NoClient
          /\ client'.base = client.base
          /\ client'.client = client.client
          /\ client'.kind = client.kind
          /\ saved' = saved
          /\ rb' = rb
          /\ net' = <<>>]_vars

\* after a builder call the clone still has the method the caller replaced
C8_Witness ==
    /\ last.name = "digest_auth"
    /\ saved # NoClient
    /\ saved.auth.kind = "Bearer"
    /\ client.auth.kind = "Digest"
    /\ client.base = saved.base

\* the authentication with every secret in it exchanged for the value v
WithSecret(auth, v) ==
    CASE auth.kind \in {"Basic", "Digest"} -> [auth EXCEPT !.password = Secret(v)]
      [] auth.kind = "Bearer" -> [auth EXCEPT !.token = Secret(v)]
      [] OTHER -> auth

\* the authentications held anywhere: by the caller, in the clone, in the
\* request, in the candidate of automatic_auth
HeldAuth ==
    {c.auth : c \in {client, saved} \ {NoClient}}
        \cup (IF rb = NoRequest THEN {} ELSE {rb.auth})
        \cup (IF op.name = "idle" THEN {} ELSE {op.cand.auth})

\* C9: the Debug text of a Secret is the redaction marker whatever its
\* value, also in a clone; the Debug text of an Authentication or a Client
\* is the same for every value of its password or token, and so is every
\* text that has been formatted.
C9_DebugRedacted ==
    /\ \A v \in Passwords \cup Tokens : Secret_fmt(Secret(v)) = "xxx"
    /\ \A auth \in HeldAuth : \A v \in Passwords \cup Tokens :
           Authentication_fmt(WithSecret(auth, v)) = Authentication_fmt(auth)
    /\ \A v \in Passwords \cup Tokens :
           /\ last.name = "fmt_client" =>
                  out = Client_fmt([client EXCEPT !.auth = WithSecret(client.auth, v)])
           /\ last.name = "fmt_saved" =>
                  out = Client_fmt([saved EXCEPT !.auth = WithSecret(saved.auth, v)])
           /\ last.name = "fmt_rb" =>
                  out = RequestBuilder_fmt([rb EXCEPT !.auth = WithSecret(rb.auth, v)])

\* the clone of a Client with a password has been formatted
C9_Witness ==
    /\ last.name = "fmt_saved"
    /\ saved.auth.kind = "Basic"
    /\ saved.auth.password.inner = "pass"
    /\ out[3][5] = "xxx"

\* C10 as claimed: a Secret is revealed by nothing but the send of the
\* request that transmits it.
C10_RevealOnlyAtSend ==
    \A i \in 1..Len(reveals) : reveals[i].by = "send"

\* C10: a Secret is revealed only by request (get, post, put) when it
\* builds the header of a Basic or Bearer request, before any send, and by
\* send for the exchange of a Digest request; no other call reveals one.
C10_RevealOnlyAtBuildOrSend ==
    /\ last.name \notin RequestCalls \cup {"send", "automatic_auth"} => reveals = <<>>
    /\ last.name \in RequestCalls =>
           reveals = IF result = Ok /\ client.auth.kind = "Basic"
                         THEN <<[by |-> "request", value |-> client.auth.password.inner]>>
                     ELSE IF result = Ok /\ client.auth.kind = "Bearer"
                         THEN <<[by |-> "request", value |-> client.auth.token.inner]>>
                     ELSE <<>>
    /\ last.name = "send" =>
           reveals = IF last.args[1].auth.kind = "Digest"
                     THEN <<[by |-> "send", value |-> last.args[1].auth.password.inner]>>
                     ELSE <<>>
    /\ last.name = "automatic_auth" =>
           /\ Len(reveals) = (IF Len(net) < 2 THEN Len(net) ELSE 2)
           /\ \A i \in 1..Len(reveals) :
                  reveals[i] = [by    |-> IF ProbeMethod(net[i]) = "Digest"
                                          THEN "send" ELSE "request",
                                value |-> last.args[2]]

\* a Basic request has been built and not sent, its password revealed
C10_Witness ==
    /\ last.name \in RequestCalls
    /\ rb.kind = "RequestBuilder"
    /\ rb.auth.kind = "Basic"
    /\ reveals # <<>>
    /\ net = <<>>

\* the paths that are relative references and resolve against a base
ValidRelativeReference(path) == path = "a.cgi"

\* C11: request, get, post and put fail for every path that is not a valid
\* relative reference against the base address of the Client, and then
\* produce no RequestBuilder, reveal no credential and put nothing on the
\* network.
C11_InvalidPathFails ==
    (last.name \in RequestCalls /\ ~ValidRelativeReference(last.args[Len(last.args)])) =>
        /\ result.kind = "Err"
        /\ reveals = <<>>
        /\ net = <<>>

\* C12: a request takes its method from the Client at request(); from then
\* on replace_with, upgrade and builder calls on the Client leave the
\* method of the request as it is, and send and the upgraded send dispatch
\* on that method.
C12_MethodFrozen ==
    [][/\ (last'.name \in RequestCalls /\ result' = Ok) => rb'.auth = client.auth
       /\ (last'.name \notin RequestCalls /\ rb # NoRequest /\ rb' # NoRequest) =>
              rb'.auth = rb.auth
       /\ (last'.name \in {"send", "upgraded_send"} /\ rb # NoRequest) =>
              /\ last'.args[1] = rb
              /\ (Len(net') = 1 /\ net'[1].xchg = "digest") <=>
                     (last'.name = "send" /\ rb.auth.kind = "Digest")
              /\ net' = <<>> <=> (last'.name = "upgraded_send" /\ rb.auth.kind = "Digest")
      ]_vars

\* an upgraded request still has the Digest method its Client had at
\* request(), after the Client has been given another method
C12_Witness ==
    /\ rb.kind = "UpgradedRequestBuilder"
    /\ rb.auth.kind = "Digest"
    /\ client # NoClient
    /\ client.auth.kind = "Bearer"
    /\ last.name = "bearer_auth"

\* what a probe is a probe of: its scheme and its method
Candidate(e) == <<e.request.url.scheme, ProbeMethod(e)>>

\* C13: in from_host and automatic_auth at most one probe is in flight, the
\* one sent last; every probe before it has completed with failure, and no
\* candidate is probed twice in one call.
C13_SequentialProbes ==
    last.name \in {"from_host", "automatic_auth"} =>
        /\ Cardinality({i \in 1..Len(net) : net[i].outcome = "pending"}) <= 1
        /\ \A i \in 1..Len(net) : net[i].outcome = "pending" => i = Len(net)
        /\ \A i \in 1..(Len(net) - 1) : net[i].outcome = "failed"
        /\ \A i, j \in 1..Len(net) : i # j => Candidate(net[i]) # Candidate(net[j])
        /\ op.name # "idle" <=> (Len(net) > 0 /\ net[Len(net)].outcome = "pending")
        /\ op.name # "idle" => op.name = last.name

\* the third probe of automatic_auth is in flight, two have failed
C13_Witness ==
    /\ last.name = "automatic_auth"
    /\ op.name = "automatic_auth"
    /\ Len(net) = 3
    /\ net[3].outcome = "pending"
    /\ net[2].outcome = "failed"

\* C14: when the server does not reject the Digest probe (it accepts
\* Digest with these credentials), automatic_auth sends it no request that
\* carries the Basic header.
C14_NoBasicToDigestServer ==
    (last.name = "automatic_auth" /\ net[1].cause # "rejected") =>
        \A i \in 1..Len(net) : net[i].request.header.type # "Basic"

\* C15: is_authenticated returns Ok for every result of its probe, true
\* only for a success; after a probe of automatic_auth has failed, for
\* whatever cause, the next candidate in the order has been probed, and
\* automatic_auth never returns the error of a probe.
C15_ProbeErrorIsNotAuthenticated ==
    /\ \A sent \in ProbeResults :
           is_authenticated(sent) = [kind |-> "Ok", value |-> sent = Ok, msg |-> ""]
    /\ last.name = "automatic_auth" =>
           /\ \A i \in 1..Len(net) :
                  (net[i].outcome = "failed" /\ i < 3) =>
                      /\ Len(net) >= i + 1
                      /\ ProbeMethod(net[i + 1]) = <<"Digest", "Basic", "Anonymous">>[i + 1]
           /\ result.msg \notin {"transport", "rejected"}

\* the Digest probe failed in the transport, the Basic probe was rejected,
\* and the Anonymous probe has been sent
C15_Witness ==
    /\ last.name = "automatic_auth"
    /\ Len(net) = 3
    /\ net[1].cause = "transport"
    /\ net[2].cause = "rejected"
    /\ ProbeMethod(net[3]) = "Anonymous"

\* a Client with one complete method and a base address with scheme and host
Complete(c) ==
    /\ c.kind = "Client"
    /\ DOMAIN c = {"kind", "auth", "base", "client"}
    /\ \/ c.auth = Anonymous
       \/ \E u \in Usernames, p \in Passwords : c.auth \in {Basic(u, Secret(p)), Digest(u, Secret(p))}
       \/ \E t \in Tokens : c.auth = Bearer(Secret(t))
    /\ c.base.scheme \in {"https", "http"}
    /\ c.base.host # <<>>

\* C16: every Client held, by the caller, in the clone or as the candidate
\* of a call in progress, is complete; cancelling from_host or
\* automatic_auth while a probe is in flight returns no Client, leaves the
\* clone and the request as they are and sends no further probe.
C16_CancelKeepsClientsComplete ==
    /\ [](/\ \A c \in {client, saved} \ {NoClient} : Complete(c)
          /\ op.name # "idle" => Complete(op.cand)
          /\ result = Cancelled =>
                 /\ op = IdleOp
                 /\ client = NoClient
                 /\ last.name \in {"from_host", "automatic_auth"}
                 /\ net[Len(net)].outcome = "cancelled"
                 /\ \A i \in 1..(Len(net) - 1) : net[i].outcome = "failed")
    /\ [][result' = Cancelled =>
              /\ op.name # "idle"
              /\ net[Len(net)].outcome = "pending"
              /\ Len(net') = Len(net)
              /\ saved' = saved
              /\ rb' = rb]_vars

\* automatic_auth was cancelled during its Basic probe while another party
\* holds a clone of the Client
C16_Witness ==
    /\ result = Cancelled
    /\ last.name = "automatic_auth"
    /\ Len(net) = 2
    /\ ProbeMethod(net[2]) = "Basic"
    /\ saved # NoClient
    /\ saved.auth.kind = "Bearer"

\* C17: from_host ends in a Client or in an error, for every host and every
\* outcome of its probes; it never panics.
C17_FromHostNeverPanics ==
    last.name = "from_host" => result.kind # "Panic"

\* C18: a Client returned by automatic_auth has the base address and the
\* transport handle of the Client it was called on and the Digest, Basic or
\* Anonymous method with the username and password supplied; every probe
\* goes to that base address with one of these methods, whatever method the
\* Client had before.
C18_AutomaticAuthFrame ==
    last.name = "automatic_auth" =>
        LET username == last.args[1]
            password == last.args[2]
            self     == last.args[3]
            methods  == {Digest(username, Secret(password)),
                         Basic(username, Secret(password)),
                         Anonymous}
        IN  /\ result = Ok =>
                   /\ client.base = self.base
                   /\ client.client = self.client
                   /\ client.auth \in methods
            /\ op.name = "automatic_auth" =>
                   /\ op.cand.base = self.base
                   /\ op.cand.client = self.client
                   /\ op.cand.auth \in methods
            /\ \A i \in 1..Len(net) :
                   /\ net[i].request.url.scheme = self.base.scheme
                   /\ net[i].request.url.host = self.base.host
                   /\ ProbeMethod(net[i]) \in {"Digest", "Basic", "Anonymous"}
                   /\ ProbeMethod(net[i]) = "Digest" =>
                          net[i].creds = [kind |-> "digest", username |-> username,
                                          password |-> password]
                   /\ ProbeMethod(net[i]) = "Basic" =>
                          net[i].request.header = [type |-> "Basic", username |-> username,
                                                   password |-> password]

\* automatic_auth on a Bearer client has returned a Digest client
C18_Witness ==
    /\ last.name = "automatic_auth"
    /\ result = Ok
    /\ last.args[3].auth.kind = "Bearer"
    /\ client.auth.kind = "Digest"
    /\ client.base = last.args[3].base

\* C19: a Client made by new or returned by from_host has the Anonymous
\* method, and every probe of from_host is one single exchange without a
\* credential header and without credentials.
C19_AnonymousConstruction ==
    /\ last.name = "new" => client = [kind |-> "Client", auth |-> Anonymous,
                                      base |-> last.args[1], client |-> client.client]
    /\ last.name = "from_host" =>
           /\ result = Ok => client.auth = Anonymous
           /\ op.name = "from_host" => op.cand.auth = Anonymous
           /\ reveals = <<>>
           /\ \A i \in 1..Len(net) :
                  /\ net[i].xchg = "single"
                  /\ net[i].request.header = NoHeader
                  /\ net[i].creds = NoCredentials

\* from_host has returned the Client of its second probe
C19_Witness ==
    /\ last.name = "from_host"
    /\ result = Ok
    /\ Len(net) = 2
    /\ net[2].outcome = "ok"
    /\ client.auth = Anonymous

====
